---- MODULE Spec2Model ----
(***************************************************************************)
(* femto-acs: the TR-069/CWMP exchange handler of src/app.py and the       *)
(* envelope readers of src/xmlutils.py.                                    *)
(*                                                                         *)
(* The long-lived state is the pair (session store, needs-configuration    *)
(* cache).  Every HTTP exchange is one atomic step: the whole view         *)
(* function runs, with every cache and session write it makes.             *)
(***************************************************************************)
EXTENDS Naturals, Sequences, FiniteSets, TLC

(***************************************************************************)
(* Values                                                                  *)
(***************************************************************************)
\* Python's None: a getter that found no node, cache.get of an unknown key.
None == "None"
\* 'serial' not in session.
NoKey == "NoKey"
\* The booleans the cache stores.
PyTrue == "True"
PyFalse == "False"

\* Device serials that occur in requests, and the HTTP sessions (cookies).
Serials == {"A", "B"}
Sessions == {"s1", "s2"}
\* What session['serial'] may hold: an Inform without serial stores None.
Keys == Serials \cup {None}

\* Longest list of children of the SOAP Body, and of the Event node.
MaxChildren == 2
MaxEvents == 1

SeqsUpTo(S, n) == UNION {[1..k -> S] : k \in 0..n}
Elems(seq) == {seq[i] : i \in 1..Len(seq)}

(***************************************************************************)
(* Requests, as they arrive                                                *)
(***************************************************************************)
\* Namespace-qualified tags of Body children; "Inform" without a namespace
\* is some other element.
FaultTag == "{http://schemas.xmlsoap.org/soap/envelope/}Fault"
InformTag == "{urn:dslforum-org:cwmp-1-0}Inform"
SetParameterValuesResponseTag == "{urn:dslforum-org:cwmp-1-0}SetParameterValuesResponse"
Tags == {FaultTag, InformTag, SetParameterValuesResponseTag, "Inform"}

\* Children of the Event node: an EventStruct with an EventCode text, an
\* EventStruct whose EventCode is empty (text None), an EventStruct without
\* EventCode, and an element that is no EventStruct.
EventCodes == {"0 BOOTSTRAP", "1 BOOT", "2 PERIODIC"}
NoEventCode == "EventStruct/-"
NotEventStruct == "CommandKey"
EventChildren == EventCodes \cup {None, NoEventCode, NotEventStruct}

\* DeviceId of an Inform: absent, without SerialNumber, or with its text.
NoDeviceId == "-"
NoSerialNumber == "DeviceId/-"
DeviceIds == {NoDeviceId, NoSerialNumber} \cup Serials

\* Status child of a SetParameterValuesResponse: absent or its text.
NoStatus == "-"
Statuses == {NoStatus, "0", "1", "9"}

\* SOAP Header: absent, without cwmp:ID, or with the ID's text.
NoHeader == "-"
NoID == "Header/-"
Headers == {NoHeader, NoID, "id1"}

\* The method child's content, with defaults for what a method lacks.
Node(deviceId, hasEvent, evs, status) ==
    [deviceId |-> deviceId, hasEvent |-> hasEvent, evs |-> evs, status |-> status]
NoNode == Node(NoDeviceId, FALSE, <<>>, NoStatus)
InformNodes ==
    {Node(d, TRUE, e, NoStatus) : d \in DeviceIds, e \in SeqsUpTo(EventChildren, MaxEvents)}
        \cup {Node(d, FALSE, <<>>, NoStatus) : d \in DeviceIds}
ResponseNodes == {Node(NoDeviceId, FALSE, <<>>, s) : s \in Statuses}

\* request.method and request.content_type.  The route accepts GET and POST
\* (and HEAD, which the framework adds to a GET route).
Methods == {"GET", "POST", "HEAD"}
CTypes == {"text/xml", "text/xml; charset=utf-8"}

\* A request body: none (no content length), bytes that are no XML, or an
\* envelope with an optional Header and an optional Body; node is the content
\* of the Body child that get_cwmp_method selects.
Doc(content, header, hasBody, children, node) ==
    [content |-> content, header |-> header, hasBody |-> hasBody,
     children |-> children, node |-> node]
EmptyDoc == Doc("empty", NoHeader, FALSE, <<>>, NoNode)
MalformedDoc == Doc("malformed", NoHeader, FALSE, <<>>, NoNode)

(***************************************************************************)
(* src/xmlutils.py                                                         *)
(***************************************************************************)
RECURSIVE FirstMethod(_)
FirstMethod(children) ==
    IF children = <<>> THEN None
    ELSE IF Head(children) = FaultTag THEN "Fault"
    ELSE IF Head(children) = InformTag THEN "Inform"
    ELSE IF Head(children) = SetParameterValuesResponseTag THEN "SetParameterValuesResponse"
    ELSE FirstMethod(Tail(children))

\* Variant: the Body is searched for a Fault, then for an Inform, then for a
\* SetParameterValuesResponse, whatever the order of its children.
get_cwmp_method_by_rank(root) ==
    IF ~root.hasBody THEN None
    ELSE IF FaultTag \in Elems(root.children) THEN "Fault"
    ELSE IF InformTag \in Elems(root.children) THEN "Inform"
    ELSE IF SetParameterValuesResponseTag \in Elems(root.children)
    THEN "SetParameterValuesResponse"
    ELSE None

get_cwmp_method(root) ==
    IF ~root.hasBody THEN None ELSE FirstMethod(root.children)

get_cwmp_id(root) ==
    IF root.header = NoHeader THEN None
    ELSE IF root.header # NoID THEN root.header
    ELSE None

\* The list of EventCode texts, None without an Event node; an EventStruct
\* without EventCode raises AttributeError (evcodenode is None).
get_cwmp_inform_events(inform) ==
    IF ~inform.hasEvent
    THEN [raised |-> FALSE, none |-> TRUE, list |-> <<>>]
    ELSE IF NoEventCode \in Elems(inform.evs)
    THEN [raised |-> TRUE, none |-> FALSE, list |-> <<>>]
    ELSE [raised |-> FALSE, none |-> FALSE,
          list |-> SelectSeq(inform.evs, LAMBDA ev : ev # NotEventStruct)]

get_cwmp_inform_serial(inform) ==
    IF inform.deviceId = NoDeviceId THEN None
    ELSE IF inform.deviceId = NoSerialNumber THEN None
    ELSE inform.deviceId

get_cwmp_setresponse_status(setparametervaluesresponse) ==
    IF setparametervaluesresponse.status = NoStatus THEN None
    ELSE setparametervaluesresponse.status

(***************************************************************************)
(* The requests of the model                                               *)
(***************************************************************************)
Trees ==
    {[header |-> h, hasBody |-> TRUE, children |-> c] :
        h \in Headers, c \in SeqsUpTo(Tags, MaxChildren)}
        \cup {[header |-> h, hasBody |-> FALSE, children |-> <<>>] : h \in Headers}

NodesOf(tree) ==
    LET method == get_cwmp_method(tree)
    IN  IF method = "Inform" THEN InformNodes
        ELSE IF method = "SetParameterValuesResponse" THEN ResponseNodes
        ELSE {NoNode}

XmlDocs ==
    UNION {{Doc("xml", t.header, t.hasBody, t.children, n) : n \in NodesOf(t)} : t \in Trees}

Requests ==
    {[method |-> m, ctype |-> ct, doc |-> d] :
        m \in Methods, ct \in CTypes, d \in {EmptyDoc, MalformedDoc} \cup XmlDocs}

\* What the view function and its handlers read of a request: the HTTP fields,
\* whether the body parses, the method get_cwmp_method finds, and the values
\* the getters return to inform() and setparams_response().
Unread(method, ctype, content) ==
    [method |-> method, ctype |-> ctype, content |-> content, rpc |-> None,
     cwmpid |-> None, serial |-> None, evRaised |-> FALSE, evNone |-> FALSE,
     events |-> <<>>, status |-> None]

Read(r) ==
    LET method == get_cwmp_method(r.doc)
        events == get_cwmp_inform_events(r.doc.node)
        in == Unread(r.method, r.ctype, r.doc.content)
    IN  IF r.method # "POST" THEN Unread(r.method, "-", "-")
        ELSE IF r.ctype # "text/xml" THEN Unread(r.method, r.ctype, "-")
        ELSE IF r.doc.content # "xml" THEN in
        ELSE IF method = "Inform"
        THEN [in EXCEPT !.rpc = method,
                        !.cwmpid = get_cwmp_id(r.doc),
                        !.serial = get_cwmp_inform_serial(r.doc.node),
                        !.evRaised = events.raised,
                        !.evNone = events.none,
                        !.events = events.list]
        ELSE IF method = "SetParameterValuesResponse"
        THEN [in EXCEPT !.rpc = method,
                        !.status = get_cwmp_setresponse_status(r.doc.node)]
        ELSE [in EXCEPT !.rpc = method]

Inputs == {Read(r) : r \in Requests}

(***************************************************************************)
(* Responses                                                               *)
(***************************************************************************)
\* A response: HTTP status, Content-Type, the body (a plain text, nothing, or
\* the template that is rendered), the cwmpid the template is rendered with
\* and the serial whose parameters it carries.
Response(code, ctype, body, cwmpid, serial) ==
    [code |-> code, ctype |-> ctype, body |-> body, cwmpid |-> cwmpid, serial |-> serial]
Text(body) == Response("200", "text/html", body, None, None)
\* make_response() without arguments.
EmptyResponse(ctype) == Response("200", ctype, "", None, None)
\* An exception that leaves the view function.
Unhandled == Response("500", "text/html", "Internal Server Error", None, None)
InformResponseTemplate == "inform.jinja.xml"
SetParamsTemplate == "setparams.jinja.xml"

(***************************************************************************)
(* src/app.py.  A handler yields the set of its possible outcomes: the     *)
(* session's 'serial' afterwards, the cache afterwards and the response.   *)
(***************************************************************************)
Outcome(serial, c, response) == [serial |-> serial, cache |-> c, resp |-> response]

\* An exception that leaves the view function before the session was written.
Raise(sv, c) == {Outcome(sv, c, Unhandled)}
\* An exception after session['serial'] was assigned: whether the session is
\* still saved is the framework's configuration (config/flask.py), so both.
RaiseAfterWrite(before, after, c) == {Outcome(sv, c, Unhandled) : sv \in {before, after}}

\* cache.get and cache.set of the file-system cache hash the key's bytes:
\* the key None (session['serial'] of an Inform without serial) raises
\* TypeError and leaves the cache as it is.
CacheRaises(key) == key \notin Serials

send_configuration(c, serial, push) ==
    IF CacheRaises(serial) THEN [cache |-> c, raised |-> TRUE]
    ELSE [cache |-> [c EXCEPT ![serial] = push], raised |-> FALSE]

\* Variant: an unknown serial is marked but reported as not needing a push.
need_configuration_marks_only(c, serial) ==
    IF CacheRaises(serial) THEN [cache |-> c, raised |-> TRUE, need |-> None]
    ELSE IF c[serial] = None
    THEN [cache |-> send_configuration(c, serial, PyTrue).cache, raised |-> FALSE,
          need |-> None]
    ELSE [cache |-> c, raised |-> FALSE, need |-> c[serial]]

\* Variant: an unknown serial is taken as configured.
need_configuration_marks_done(c, serial) ==
    IF CacheRaises(serial) THEN [cache |-> c, raised |-> TRUE, need |-> None]
    ELSE IF c[serial] = None
    THEN [cache |-> send_configuration(c, serial, PyFalse).cache, raised |-> FALSE,
          need |-> PyFalse]
    ELSE [cache |-> c, raised |-> FALSE, need |-> c[serial]]

need_configuration(c, serial) ==
    IF CacheRaises(serial) THEN [cache |-> c, raised |-> TRUE, need |-> None]
    ELSE IF c[serial] = None
    THEN [cache |-> send_configuration(c, serial, PyTrue).cache, raised |-> FALSE,
          need |-> PyTrue]
    ELSE [cache |-> c, raised |-> FALSE, need |-> c[serial]]

root == Text("This is a femto-acs/tr069 server")

\* Variant: a Fault ends the session's identity.
fault_forgets_serial(sv, c) == {Outcome(NoKey, c, Text("Fault"))}

fault(sv, c) == {Outcome(sv, c, Text("Fault"))}

\* Variant: only '0 BOOTSTRAP' counts as a boot.
inform_bootstrap_only(sv, c, in) ==
    IF in.evRaised THEN Raise(sv, c)
    ELSE IF in.evNone THEN RaiseAfterWrite(sv, in.serial, c)
    ELSE LET booted == "0 BOOTSTRAP" \in Elems(in.events)
             sent == IF booted THEN send_configuration(c, in.serial, PyTrue)
                     ELSE [cache |-> c, raised |-> FALSE]
         IN  IF sent.raised \/ None \in Elems(in.events)
             THEN RaiseAfterWrite(sv, in.serial, sent.cache)
             ELSE {Outcome(in.serial, sent.cache,
                           Response("200", "text/xml; charset=\"utf-8\"",
                                    InformResponseTemplate, in.cwmpid, None))}

\* Variant: the acknowledgement carries a fixed id, as the push does.
inform_fixed_id(sv, c, in) ==
    IF in.evRaised THEN Raise(sv, c)
    ELSE IF in.evNone THEN RaiseAfterWrite(sv, in.serial, c)
    ELSE LET booted == "0 BOOTSTRAP" \in Elems(in.events) \/ "1 BOOT" \in Elems(in.events)
             sent == IF booted THEN send_configuration(c, in.serial, PyTrue)
                     ELSE [cache |-> c, raised |-> FALSE]
         IN  IF sent.raised \/ None \in Elems(in.events)
             THEN RaiseAfterWrite(sv, in.serial, sent.cache)
             ELSE {Outcome(in.serial, sent.cache,
                           Response("200", "text/xml; charset=\"utf-8\"",
                                    InformResponseTemplate, "23", None))}

\* get_cwmp_inform_events raises before the session is written; events = None
\* raises at the boot test and a None among the events at the join of the
\* log line, both after it.
inform(sv, c, in) ==
    IF in.evRaised THEN Raise(sv, c)
    ELSE IF in.evNone THEN RaiseAfterWrite(sv, in.serial, c)
    ELSE LET booted == "0 BOOTSTRAP" \in Elems(in.events) \/ "1 BOOT" \in Elems(in.events)
             sent == IF booted THEN send_configuration(c, in.serial, PyTrue)
                     ELSE [cache |-> c, raised |-> FALSE]
         IN  IF sent.raised \/ None \in Elems(in.events)
             THEN RaiseAfterWrite(sv, in.serial, sent.cache)
             ELSE {Outcome(in.serial, sent.cache,
                           Response("200", "text/xml; charset=\"utf-8\"",
                                    InformResponseTemplate, in.cwmpid, None))}

\* Variant: sending the configuration clears the flag.
send_setparams_clears(sv, c) ==
    LET sent == send_configuration(c, sv, PyFalse)
    IN  IF sent.raised THEN Raise(sv, sent.cache)
        ELSE {Outcome(sv, sent.cache,
                      Response("200", "text/xml", SetParamsTemplate, "23", sv))}

\* serial = session['serial'] of a session that acs() found to hold one.
send_setparams(sv, c) ==
    LET sent == send_configuration(c, sv, PyTrue)
    IN  IF sent.raised THEN Raise(sv, sent.cache)
        ELSE {Outcome(sv, sent.cache,
                      Response("200", "text/xml", SetParamsTemplate, "23", sv))}

\* Variant: the flag is cleared only when the device reports status 0.
setparams_response_on_success(sv, c, in) ==
    IF sv = NoKey THEN Raise(sv, c)
    ELSE LET sent == IF in.status = "0" THEN send_configuration(c, sv, PyFalse)
                     ELSE [cache |-> c, raised |-> CacheRaises(sv)]
         IN  IF sent.raised THEN Raise(sv, sent.cache)
             ELSE {Outcome(sv, sent.cache, EmptyResponse("text/xml"))}

\* Variant: the response clears the entry of every serial.
setparams_response_clears_all(sv, c, in) ==
    IF sv = NoKey THEN Raise(sv, c)
    ELSE IF CacheRaises(sv) THEN Raise(sv, c)
    ELSE {Outcome(sv, [k \in Serials |-> PyFalse], EmptyResponse("text/xml"))}

\* session['serial'] raises KeyError in a session without serial.  The status
\* only selects a log line (a log line whose arguments do not fit its format
\* is reported by the logging module, not raised).
setparams_response(sv, c, in) ==
    IF sv = NoKey THEN Raise(sv, c)
    ELSE LET sent == send_configuration(c, sv, PyFalse)
         IN  IF sent.raised THEN Raise(sv, sent.cache)
             ELSE {Outcome(sv, sent.cache, EmptyResponse("text/xml"))}

\* Variant: the cache entry is not consulted.
empty_request_always_sends(sv, c) ==
    IF sv = NoKey THEN {Outcome(sv, c, EmptyResponse("text/html"))}
    ELSE LET n == need_configuration(c, sv)
         IN  IF n.raised THEN Raise(sv, n.cache)
             ELSE send_setparams(sv, n.cache)

\* Variant: the session is not asked whether it holds a serial.
empty_request_unchecked(sv, c) ==
    IF sv = NoKey THEN Raise(sv, c)
    ELSE LET n == need_configuration(c, sv)
         IN  IF n.raised THEN Raise(sv, n.cache)
             ELSE IF n.need = PyTrue THEN send_setparams(sv, n.cache)
             ELSE {Outcome(sv, n.cache, EmptyResponse("text/html"))}

\* The branch of acs() for a request without content.
empty_request(sv, c) ==
    IF sv = NoKey THEN {Outcome(sv, c, EmptyResponse("text/html"))}
    ELSE LET n == need_configuration(c, sv)
         IN  IF n.raised THEN Raise(sv, n.cache)
             ELSE IF n.need = PyTrue THEN send_setparams(sv, n.cache)
             ELSE {Outcome(sv, n.cache, EmptyResponse("text/html"))}

acs(sv, c, in) ==
    IF in.method = "GET" THEN {Outcome(sv, c, Text("This is a femoto-acs/tr069 server"))}
    ELSE IF in.method # "POST" THEN {Outcome(sv, c, Text("There is nothing to show"))}
    ELSE IF in.ctype # "text/xml" THEN {Outcome(sv, c, Text("Wrong content type"))}
    ELSE IF in.content = "empty" THEN empty_request(sv, c)
    ELSE IF in.content = "malformed"
    THEN {Outcome(sv, c, Text("Could not parse the request as XML"))}
    ELSE IF in.rpc = None THEN {Outcome(sv, c, Text("Failed to get the cwmp method"))}
    ELSE IF in.rpc = "Fault" THEN fault(sv, c)
    ELSE IF in.rpc = "Inform" THEN inform(sv, c, in)
    ELSE IF in.rpc = "SetParameterValuesResponse" THEN setparams_response(sv, c, in)
    ELSE {Outcome(sv, c, Text("This is a femto-acs/tr069 server"))}

(***************************************************************************)
(* The state machine                                                       *)
(***************************************************************************)
VARIABLES
    session,    \* session['serial'] of every HTTP session, NoKey when unset
    cache,      \* the needs-configuration cache: None (no entry), True, False;
                \* an entry stays until it is written again (the cache's
                \* timeout is configuration, not part of the source)
    req,        \* the exchange handled last, as the handler saw it
    resp,       \* the response to it
    pending,    \* per session: a boot Inform was acknowledged in it, and since
                \* then no Inform came in it and no SetParameterValuesResponse
                \* came in a session holding the same serial
    cleared,    \* per session: the serial a SetParameterValuesResponse was
                \* acknowledged for in it, None once a boot Inform for that
                \* serial wrote the cache again
    settled,    \* per serial: a SetParameterValuesResponse was handled in a
                \* session holding it, and no boot Inform for it since
    flight,     \* per session, when requests overlap: where its request
                \* stands, the serial it is about, what it read and returned
    due,        \* per serial, when requests overlap: a boot Inform for it was
                \* acknowledged and no SetParameterValuesResponse wrote since
    actor,      \* when requests overlap: the session that took the last step
    arg,        \* the argument of a function applied on its own
    result      \* and what the function returned

vars == <<session, cache, req, resp, pending, cleared, settled, flight, due, actor,
          arg, result>>

\* The boot events of TR-069: the device started for the first time, or again.
BootEvents == {"0 BOOTSTRAP", "1 BOOT"}
HasBootEvent(events) == \E i \in 1..Len(events) : events[i] \in BootEvents

\* The exchange as the handler saw it: the session, the route, the request
\* fields it read, whether the Inform's events held a boot event, and the
\* cache entry of the session's serial that an empty request met.
Exchange(x, route, in, entry) ==
    [sess |-> x, route |-> route, method |-> in.method, ctype |-> in.ctype,
     content |-> in.content, rpc |-> in.rpc, cwmpid |-> in.cwmpid,
     serial |-> in.serial, evRaised |-> in.evRaised, evNone |-> in.evNone,
     booted |-> HasBootEvent(in.events), status |-> in.status, entry |-> entry]

IsEmptyRequest(e) ==
    e.route = "/acs" /\ e.method = "POST" /\ e.ctype = "text/xml" /\ e.content = "empty"
IsRpc(e, method) == e.route = "/acs" /\ e.content = "xml" /\ e.rpc = method
\* An Inform that reached the boot test with a boot event among its events.
IsBootInform(e) == IsRpc(e, "Inform") /\ ~e.evRaised /\ ~e.evNone /\ e.booted

IsPush(r) == r.code = "200" /\ r.body = SetParamsTemplate
IsEmptyAck(r) == r.code = "200" /\ r.body = ""
IsInformAck(r) == r.code = "200" /\ r.body = InformResponseTemplate

\* Every input with what is recorded of it.
Seen ==
    {[in |-> in, ex |-> Exchange("-", "/acs", in, "-"),
      kind |-> LET e == Exchange("-", "/acs", in, "-")
               IN  IF IsEmptyRequest(e) THEN "empty"
                   ELSE IF IsBootInform(e) THEN "boot"
                   ELSE IF IsRpc(e, "Inform") THEN "inform"
                   ELSE IF IsRpc(e, "SetParameterValuesResponse") THEN "response"
                   ELSE "other"] : in \in Inputs}

\* A session with no request in flight and none handled yet.
Idle == [pc |-> "idle", about |-> "-", need |-> "-", owed |-> FALSE, out |-> "-"]

\* No function applied on its own yet.
NoResult == [done |-> FALSE]

\* cache.clear() at start-up; no session exists yet.
Init ==
    /\ session = [x \in Sessions |-> NoKey]
    /\ cache = [k \in Serials |-> None]
    /\ req = Exchange("-", "-", Unread("-", "-", "-"), "-")
    /\ resp = Text("-")
    /\ pending = [x \in Sessions |-> FALSE]
    /\ cleared = [x \in Sessions |-> None]
    /\ settled = [k \in Serials |-> FALSE]
    /\ flight = [x \in Sessions |-> Idle]
    /\ due = [k \in Serials |-> FALSE]
    /\ actor = "-"
    /\ arg = "-"
    /\ result = NoResult

\* GET or POST /
Root ==
    \E x \in Sessions, m \in {"GET", "POST"} :
        /\ req' = Exchange(x, "/", Unread(m, "-", "-"), "-")
        /\ resp' = root
        /\ UNCHANGED <<session, cache, pending, cleared, settled>>
        /\ UNCHANGED <<flight, due, actor, arg, result>>

\* GET, HEAD or POST /acs
Acs ==
    \E x \in Sessions, s \in Seen :
        \E o \in acs(session[x], cache, s.in) :
            /\ session' = [session EXCEPT ![x] = o.serial]
            /\ cache' = o.cache
            /\ req' = [s.ex EXCEPT !.sess = x,
                                   !.entry = IF s.kind = "empty" /\ session[x] \in Serials
                                             THEN cache[session[x]] ELSE "-"]
            /\ resp' = o.resp
            /\ pending' =
                IF s.kind \in {"boot", "inform"}
                THEN [pending EXCEPT ![x] = s.kind = "boot" /\ IsInformAck(o.resp)
                                                /\ s.in.serial \in Serials]
                ELSE IF s.kind = "response"
                THEN [y \in Sessions |-> pending[y] /\ session[y] # session[x]]
                ELSE pending
            /\ cleared' =
                IF s.kind = "response"
                THEN [cleared EXCEPT ![x] = IF IsEmptyAck(o.resp) THEN session[x] ELSE None]
                ELSE IF s.kind = "boot"
                THEN [y \in Sessions |-> IF cleared[y] = s.in.serial THEN None ELSE cleared[y]]
                ELSE cleared
            /\ settled' =
                IF s.kind = "response" /\ session[x] \in Serials
                THEN [settled EXCEPT ![session[x]] = TRUE]
                ELSE IF s.kind = "boot" /\ s.in.serial \in Serials
                THEN [settled EXCEPT ![s.in.serial] = FALSE]
                ELSE settled
            /\ UNCHANGED <<flight, due, actor, arg, result>>

Next == Root \/ Acs

Spec == Init /\ [][Next]_vars

TypeOK ==
    /\ session \in [Sessions -> Keys \cup {NoKey}]
    /\ cache \in [Serials -> {None, PyTrue, PyFalse}]
    /\ pending \in [Sessions -> BOOLEAN]
    /\ cleared \in [Sessions -> Keys]
    /\ settled \in [Serials -> BOOLEAN]

(***************************************************************************)
(* Overlapping requests                                                    *)
(*                                                                         *)
(* The WSGI server may run the handlers of several sessions at once.  A    *)
(* handler shares only the cache with the others, so a request is split at *)
(* its cache calls: an Inform, a Fault and a SetParameterValuesResponse    *)
(* make at most one and stay one step; an empty request makes up to three  *)
(* (the get and the set of need_configuration, the set of send_setparams). *)
(* Each session has at most one request in flight.                         *)
(***************************************************************************)
\* The kind of response, as the device tells them apart.
OutOf(r) ==
    IF r = Unhandled THEN "error"
    ELSE IF IsPush(r) THEN "push"
    ELSE IF IsEmptyAck(r) THEN "ack"
    ELSE IF IsInformAck(r) THEN "inform"
    ELSE "text"

Stays == UNCHANGED <<req, resp, pending, cleared, settled, arg, result>>

\* Every request of /acs but the empty one.
Handle ==
    \E x \in Sessions, s \in Seen :
        /\ flight[x].pc = "idle"
        /\ s.kind # "empty"
        /\ \E o \in acs(session[x], cache, s.in) :
            /\ session' = [session EXCEPT ![x] = o.serial]
            /\ cache' = o.cache
            /\ flight' = [flight EXCEPT ![x] =
                    [pc |-> "idle",
                     about |-> IF s.kind \in {"boot", "inform"} THEN s.in.serial
                               ELSE session[x],
                     need |-> "-", owed |-> FALSE, out |-> OutOf(o.resp)]]
            /\ due' =
                IF s.kind = "boot" /\ IsInformAck(o.resp) /\ s.in.serial \in Serials
                THEN [due EXCEPT ![s.in.serial] = TRUE]
                ELSE IF s.kind = "response" /\ session[x] \in Serials
                THEN [due EXCEPT ![session[x]] = FALSE]
                ELSE due
        /\ actor' = x
        /\ Stays

\* The empty request up to need = cache.get(serial): a session without serial
\* is answered at once, and so is one whose entry reads False.
PollGet ==
    \E x \in Sessions :
        /\ flight[x].pc = "idle"
        /\ flight' = [flight EXCEPT ![x] =
                IF session[x] = NoKey
                THEN [pc |-> "idle", about |-> NoKey, need |-> "-", owed |-> FALSE,
                      out |-> OutOf(EmptyResponse("text/html"))]
                ELSE IF CacheRaises(session[x])
                THEN [pc |-> "idle", about |-> session[x], need |-> "-", owed |-> FALSE,
                      out |-> OutOf(Unhandled)]
                ELSE [pc |-> IF cache[session[x]] = None THEN "mark"
                             ELSE IF cache[session[x]] = PyTrue THEN "send"
                             ELSE "idle",
                      about |-> session[x], need |-> cache[session[x]],
                      owed |-> due[session[x]],
                      out |-> IF cache[session[x]] = PyFalse
                              THEN OutOf(EmptyResponse("text/xml")) ELSE "-"]]
        /\ actor' = x
        /\ UNCHANGED <<session, cache, due>>
        /\ Stays

\* need was None: cache.set(serial, True), and need_configuration is True.
PollMark ==
    \E x \in Sessions :
        /\ flight[x].pc = "mark"
        /\ cache' = send_configuration(cache, flight[x].about, PyTrue).cache
        /\ flight' = [flight EXCEPT ![x].pc = "send"]
        /\ actor' = x
        /\ UNCHANGED <<session, due>>
        /\ Stays

\* send_setparams() of the empty request: its cache.set and its response.
PollSend ==
    \E x \in Sessions :
        /\ flight[x].pc = "send"
        /\ \E o \in send_setparams(flight[x].about, cache) :
            /\ cache' = o.cache
            /\ flight' = [flight EXCEPT ![x].pc = "idle", ![x].out = OutOf(o.resp)]
        /\ actor' = x
        /\ UNCHANGED <<session, due>>
        /\ Stays

NextOverlap == Handle \/ PollGet \/ PollMark \/ PollSend

SpecOverlap == Init /\ [][NextOverlap]_vars

(***************************************************************************)
(* generate_config                                                         *)
(*                                                                         *)
(* The parameter file as configparser presents it: a mapping of section    *)
(* names to sections, a section a mapping of the names of its rows to      *)
(* their text, a sequence of characters.  The files have the section       *)
(* Common and may have a section for serial "A".                           *)
(***************************************************************************)
Names == <<"k1", "k2">>
Texts ==
    {<<"1", "|", "i">>, <<"2", "|", "s">>, <<"3">>, <<"4", "|", "i", "|", "x">>,
     <<"5", "%">>, <<"6", "%", "%", "|", "i">>, <<"7", "%", "|", "i">>}
Sections == UNION {[keys -> Texts] : keys \in SUBSET Elems(Names)}
Configs == UNION {[names -> Sections] : names \in {{"Common"}, {"Common", "A"}}}
SerialArgs == {None, "", "A", "B"}

\* config[section][key]: the text of the row after configparser's basic
\* interpolation, which turns %% into % and raises on any other % (references
\* %(name)s are not among the texts).
RECURSIVE GetValue(_)
GetValue(text) ==
    IF text = <<>> THEN [raised |-> FALSE, text |-> <<>>]
    ELSE IF Head(text) # "%"
    THEN LET rest == GetValue(Tail(text))
         IN  [raised |-> rest.raised, text |-> <<Head(text)>> \o rest.text]
    ELSE IF Len(text) >= 2 /\ text[2] = "%"
    THEN LET rest == GetValue(Tail(Tail(text)))
         IN  [raised |-> rest.raised, text |-> <<"%">> \o rest.text]
    ELSE [raised |-> TRUE, text |-> <<>>]

\* text.split('|'): the fields between the bars, one more than there are bars.
RECURSIVE Split(_)
Split(text) ==
    IF text = <<>> THEN << <<>> >>
    ELSE LET rest == Split(Tail(text))
         IN  IF Head(text) = "|" THEN << <<>> >> \o rest
             ELSE << <<Head(text)>> \o Head(rest) >> \o Tail(rest)

\* params[key] = entry
Put(params, key, entry) ==
    [k \in DOMAIN params \cup {key} |-> IF k = key THEN entry ELSE params[k]]

\* The rows of a section in turn.  A row that does not split in two fields
\* raises ValueError at the unpacking, which the bare except logs; the
\* handler reads config[section][key] again for its log line, so a row whose
\* interpolation raised raises there a second time, out of generate_config.
RECURSIVE read_config_to_params(_, _, _)
read_config_to_params(got, section, keys) ==
    IF keys = <<>> \/ got.raised THEN got
    ELSE IF Head(keys) \notin DOMAIN section
    THEN read_config_to_params(got, section, Tail(keys))
    ELSE LET row == GetValue(section[Head(keys)])
             fields == Split(row.text)
         IN  IF row.raised THEN [raised |-> TRUE, params |-> got.params]
             ELSE read_config_to_params(
                      IF Len(fields) = 2
                      THEN [raised |-> FALSE,
                            params |-> Put(got.params, Head(keys),
                                           [value |-> fields[1], xmltype |-> fields[2]])]
                      ELSE got,
                      section, Tail(keys))

\* params starts empty; Common always, then the section named serial when
\* serial is truthy and the file has a section of that name.
generate_config(serial, config) ==
    LET common == read_config_to_params([raised |-> FALSE, params |-> <<>>],
                                        config["Common"], Names)
    IN  IF serial \notin {None, ""} /\ serial \in DOMAIN config
        THEN read_config_to_params(common, config[serial], Names)
        ELSE common

InitConfig ==
    /\ session = [x \in Sessions |-> NoKey]
    /\ cache = [k \in Serials |-> None]
    /\ req = Exchange("-", "-", Unread("-", "-", "-"), "-")
    /\ resp = Text("-")
    /\ pending = [x \in Sessions |-> FALSE]
    /\ cleared = [x \in Sessions |-> None]
    /\ settled = [k \in Serials |-> FALSE]
    /\ flight = [x \in Sessions |-> Idle]
    /\ due = [k \in Serials |-> FALSE]
    /\ actor = "-"
    /\ arg \in [serial : SerialArgs, config : Configs]
    /\ result = NoResult

Resolve ==
    /\ ~result.done
    /\ result' = [done |-> TRUE, got |-> generate_config(arg.serial, arg.config)]
    /\ UNCHANGED <<session, cache, req, resp, pending, cleared, settled, flight, due,
                   actor, arg>>

SpecConfig == InitConfig /\ [][Resolve]_vars

(***************************************************************************)
(* The dispatch of acs() on its own: a POST of text/xml with an envelope,  *)
(* in a session that holds a serial or none, the cache still empty.        *)
(***************************************************************************)
InitDispatch ==
    /\ session = [x \in Sessions |-> NoKey]
    /\ cache = [k \in Serials |-> None]
    /\ req = Exchange("-", "-", Unread("-", "-", "-"), "-")
    /\ resp = Text("-")
    /\ pending = [x \in Sessions |-> FALSE]
    /\ cleared = [x \in Sessions |-> None]
    /\ settled = [k \in Serials |-> FALSE]
    /\ flight = [x \in Sessions |-> Idle]
    /\ due = [k \in Serials |-> FALSE]
    /\ actor = "-"
    /\ arg \in [doc : XmlDocs, serial : {NoKey, "A"}]
    /\ result = NoResult

Dispatch ==
    /\ ~result.done
    /\ result' =
           [done |-> TRUE,
            got |-> acs(arg.serial, cache,
                        Read([method |-> "POST", ctype |-> "text/xml", doc |-> arg.doc]))]
    /\ UNCHANGED <<session, cache, req, resp, pending, cleared, settled, flight, due,
                   actor, arg>>

SpecDispatch == InitDispatch /\ [][Dispatch]_vars

(***************************************************************************)
(* Properties                                                              *)
(***************************************************************************)
SetResponse == "SetParameterValuesResponse"
\* The serial the session of the exchange held before / holds after it.
Held(e) == session[e.sess]

C3_ResponseThenAck ==
    [][/\ IsRpc(req', SetResponse) /\ Held(req') \in Serials
            => cache'[Held(req')] = PyFalse /\ IsEmptyAck(resp')
       /\ IsEmptyRequest(req') /\ cleared[req'.sess] # None /\ Held(req') \in Serials
            => IsEmptyAck(resp')]_vars

\* C3, amended: ... the next empty request of that session is answered with an
\* empty acknowledgement if no boot Inform for s came in between and the
\* session still holds s (no Inform gave it another serial).
C3_ResponseThenAckSameSerial ==
    [][/\ IsRpc(req', SetResponse) /\ Held(req') \in Serials
            => cache'[Held(req')] = PyFalse /\ IsEmptyAck(resp')
       /\ IsEmptyRequest(req') /\ cleared[req'.sess] # None
                               /\ Held(req') = cleared[req'.sess]
            => IsEmptyAck(resp')]_vars

C3_Witness ==
    /\ IsEmptyRequest(req) /\ cleared[req.sess] \in Serials
    /\ Held(req) = cleared[req.sess] /\ req.entry = PyFalse /\ IsEmptyAck(resp)

\* C4: a push leaves the entry of its serial True; an empty request that
\* directly follows a pushed empty request of the same session is pushed the
\* same; and an entry turns from True to False only in the exchange of a
\* SetParameterValuesResponse in a session holding that serial.
C4_PushKeepsFlag ==
    [][/\ IsPush(resp') => cache'[resp'.serial] = PyTrue
       /\ IsEmptyRequest(req) /\ IsPush(resp) /\ IsEmptyRequest(req')
                              /\ req'.sess = req.sess
            => IsPush(resp') /\ resp'.serial = resp.serial
       /\ \A s \in Serials :
            cache[s] = PyTrue /\ cache'[s] = PyFalse
                => IsRpc(req', SetResponse) /\ Held(req') = s]_vars

C4_Witness ==
    /\ IsEmptyRequest(req) /\ IsPush(resp) /\ req.entry = PyTrue
    /\ cache[resp.serial] = PyTrue /\ ~pending[req.sess]

\* C5: a push is the answer to an empty request of a session that holds a
\* serial whose entry is not False, and to nothing else.
C5_PushOnlyOnPoll ==
    [][IsPush(resp')
        => /\ IsEmptyRequest(req')
           /\ Held(req') \in Serials
           /\ cache[Held(req')] # PyFalse
           /\ resp'.serial = Held(req')]_vars

C5_Witness ==
    IsPush(resp) /\ IsEmptyRequest(req) /\ Held(req) \in Serials /\ req.entry # PyFalse

\* C6, as stated: every exchange is answered by the handler; none ends in an
\* exception that leaves it.
C6_NoUnhandled == resp # Unhandled

\* C7, as stated: an Inform without Event node is handled like one with an
\* empty event list: its serial is stored in the session, the cache is left
\* as it is and the Inform is acknowledged.
C7_NoEventNodeAcked ==
    [][IsRpc(req', "Inform") /\ req'.evNone
        => IsInformAck(resp') /\ session'[req'.sess] = req'.serial /\ cache' = cache]_vars

\* C8, as stated, for the Informs that are answered: an Inform without
\* serial stores nothing in the session and changes no cache entry.
C8_NoSerialRejected ==
    [][IsRpc(req', "Inform") /\ req'.serial = None /\ resp' # Unhandled
        => session' = session /\ cache' = cache]_vars

\* The exchanges C9 is about.
LeavesState(e) ==
    /\ e.route = "/acs"
    /\ \/ e.method = "GET"
       \/ e.method = "POST" /\ e.ctype # "text/xml"
       \/ e.method = "POST" /\ e.ctype = "text/xml" /\ e.content = "malformed"
       \/ IsRpc(e, "Fault")
       \/ IsRpc(e, None)

\* C9: a Fault, an unrecognized method or a missing Body, a body that is no
\* XML, a POST with another content type and a GET leave every session's
\* serial and every cache entry as they are.
C9_NoMutation ==
    [][LeavesState(req') => session' = session /\ cache' = cache]_vars

C9_Witness ==
    /\ IsRpc(req, "Fault") /\ resp = Text("Fault")
    /\ Held(req) \in Serials /\ cache[Held(req)] = PyTrue

\* C10: an empty request in a session without serial is answered with an
\* empty acknowledgement and changes neither the cache nor any session.
C10_NoSessionAck ==
    [][IsEmptyRequest(req') /\ Held(req') = NoKey
        => IsEmptyAck(resp') /\ session' = session /\ cache' = cache]_vars

C10_Witness ==
    /\ IsEmptyRequest(req) /\ Held(req) = NoKey /\ IsEmptyAck(resp)
    /\ \E s \in Serials : cache[s] = PyTrue

\* C11: whatever the interleaving of the requests of several sessions, a step
\* of a request changes no cache entry but that of the serial the request is
\* about (the serial an Inform names, the serial the session holds for every
\* other request), changes the stored serial of no other session, and leaves
\* what the request of another session has read and returned as it was.
C11_NoInterference ==
    [][\A y \in Sessions, k \in Serials :
            /\ y # actor' => session'[y] = session[y] /\ flight'[y] = flight[y]
            /\ k # flight'[actor'].about => cache'[k] = cache[k]]_vars

\* While the empty request of s1 for serial A waits between its cache calls,
\* s2 had a SetParameterValuesResponse for serial B handled.
C11_Witness ==
    /\ flight["s1"].pc = "send" /\ flight["s1"].about = "A" /\ flight["s1"].need = None
    /\ actor = "s2" /\ session["s2"] = "B" /\ flight["s2"].about = "B"
    /\ flight["s2"].out = "ack" /\ cache["B"] = PyFalse /\ cache["A"] = PyTrue

C13_InformAckEchoesId ==
    IsInformAck(resp) => IsRpc(req, "Inform") /\ resp.cwmpid = req.cwmpid

\* An Inform with an ID in its Header was acknowledged with that ID.
C13_Witness ==
    IsRpc(req, "Inform") /\ req.cwmpid = "id1" /\ IsInformAck(resp) /\ resp.cwmpid = "id1"

\* The sections generate_config is to merge for the serial it is given.
HasOwnSection == arg.serial \in DOMAIN arg.config
\* A row is malformed when its text has no bar or more than one.
Bars(text) == Cardinality({i \in 1..Len(text) : text[i] = "|"})
Malformed(text) == Bars(text) # 1
\* The value and the type of a row with one bar: what stands before the bar
\* and what stands after it in the value configparser gives for the row.
EntryOf(text) ==
    LET v == GetValue(text).text
        bar == CHOOSE i \in 1..Len(v) : v[i] = "|"
    IN  [value |-> SubSeq(v, 1, bar - 1), xmltype |-> SubSeq(v, bar + 1, Len(v))]

\* C14: a malformed row, of Common or of the serial's section, does not abort
\* the resolution, and its key is not in the result.
C14_MalformedRowSkipped ==
    result.done =>
        \A name \in {"Common"} \cup ({arg.serial} \cap DOMAIN arg.config) :
            \A key \in DOMAIN arg.config[name] :
                Malformed(arg.config[name][key])
                    => ~result.got.raised /\ key \notin DOMAIN result.got.params

\* C15: for every file with a section named after the serial, a key of both
\* Common and that section has the value and type of the section's row, a key
\* of Common alone has those of Common's row; and with no serial the result
\* is that of Common alone.
C15_SerialSectionOverrides ==
    result.done =>
        /\ HasOwnSection =>
                /\ ~result.got.raised
                /\ \A key \in DOMAIN arg.config["Common"] :
                        IF key \in DOMAIN arg.config[arg.serial]
                        THEN ~Malformed(arg.config[arg.serial][key])
                                => /\ key \in DOMAIN result.got.params
                                   /\ result.got.params[key] = EntryOf(arg.config[arg.serial][key])
                        ELSE ~Malformed(arg.config["Common"][key])
                                => /\ key \in DOMAIN result.got.params
                                   /\ result.got.params[key] = EntryOf(arg.config["Common"][key])
        /\ arg.serial = None =>
                result.got = read_config_to_params([raised |-> FALSE, params |-> <<>>],
                                                   arg.config["Common"], Names)

\* The methods acs() handles, by the tag of the Body child.
MethodOfTag ==
    [t \in {FaultTag, InformTag, SetParameterValuesResponseTag} |->
        IF t = FaultTag THEN "Fault"
        ELSE IF t = InformTag THEN "Inform"
        ELSE SetResponse]
\* The positions of the Body children with such a tag.
MethodChildren(doc) ==
    {i \in 1..Len(doc.children) : doc.children[i] \in DOMAIN MethodOfTag}
\* What the handler of the method does with the document.
HandledAs(method, doc) ==
    LET in == [Unread("POST", "text/xml", "xml") EXCEPT !.rpc = method]
        events == get_cwmp_inform_events(doc.node)
    IN  IF method = "Fault" THEN fault(arg.serial, cache)
        ELSE IF method = "Inform"
        THEN inform(arg.serial, cache,
                    [in EXCEPT !.cwmpid = get_cwmp_id(doc),
                               !.serial = get_cwmp_inform_serial(doc.node),
                               !.evRaised = events.raised,
                               !.evNone = events.none,
                               !.events = events.list])
        ELSE setparams_response(arg.serial, cache,
                    [in EXCEPT !.status = get_cwmp_setresponse_status(doc.node)])

\* C16: an envelope is handled as the method of the first child of its Body,
\* in document order, that is a soap Fault, a cwmp Inform or a cwmp
\* SetParameterValuesResponse, and as that method only; a Body without such
\* a child, or an envelope without Body, is answered as a request with no
\* method, not as a parse error, and changes nothing.
C16_FirstMatchingChild ==
    result.done =>
        IF arg.doc.hasBody /\ MethodChildren(arg.doc) # {}
        THEN LET first == CHOOSE i \in MethodChildren(arg.doc) :
                              \A j \in MethodChildren(arg.doc) : i <= j
             IN  result.got = HandledAs(MethodOfTag[arg.doc.children[first]], arg.doc)
        ELSE result.got =
                {Outcome(arg.serial, cache, Text("Failed to get the cwmp method"))}

\* A Body whose second child is a Fault and whose first is an Inform was
\* handled as the Inform.
C16_Witness ==
    /\ result.done
    /\ arg.doc.hasBody /\ arg.doc.children = <<InformTag, FaultTag>>
    /\ \E o \in result.got : IsInformAck(o.resp)

C18_ClearsHeldSerialOnly ==
    [][IsRpc(req', SetResponse) /\ Held(req') \in Serials
        => /\ cache'[Held(req')] = PyFalse
           /\ \A k \in Serials : k # Held(req') => cache'[k] = cache[k]]_vars

\* One session alone: it had the entry of A set while it held A, then
\* informed as B, and its SetParameterValuesResponse cleared B, not A.
C18_Witness ==
    /\ IsRpc(req, SetResponse) /\ IsEmptyAck(resp)
    /\ Held(req) = "B" /\ cache["B"] = PyFalse /\ cache["A"] = PyTrue
    /\ \A x \in Sessions : x # req.sess => session[x] = NoKey

\* C19: with the exchanges handled one at a time from an empty cache, the
\* entry of a serial is False exactly when a SetParameterValuesResponse was
\* handled in a session holding the serial and no Inform with a boot event
\* for the serial was handled since; otherwise it is absent or True; and an
\* entry that was written never becomes absent again.
C19_FalseIffSettled ==
    /\ [](\A k \in Serials : cache[k] = PyFalse <=> settled[k])
    /\ [][\A k \in Serials : cache[k] # None => cache'[k] # None]_vars

\* The entry of A is False after its response; that of B was False too and
\* is True again since the boot Inform for B that was just handled.
C19_Witness ==
    /\ settled["A"] /\ cache["A"] = PyFalse
    /\ IsBootInform(req) /\ req.serial = "B" /\ cache["B"] = PyTrue /\ ~settled["B"]
    /\ \E x \in Sessions : cleared[x] = "A"

====
